---------------------------- MODULE Spec2Model ----------------------------
(***************************************************************************)
(* Model of the rmate-server menu-bar application.  The repository holds   *)
(* two builds of the same application:                                     *)
(*   "tray"  : src/src/main.rs        (tray-icon + winit event loop)       *)
(*   "tauri" : src/src-tauri/src/main.rs (tauri system tray, with a        *)
(*             restart deferred to the async runtime)                      *)
(* The variable app says which build a behaviour is a run of.              *)
(***************************************************************************)
EXTENDS Integers, Sequences, FiniteSets, TLC

VARIABLES
    app,        \* which build runs: "tray" or "tauri"
    mainPc,     \* position of the main (event) thread
    server,     \* AppState.server: 0 is None, n > 0 is Some(child n)
    editor,     \* AppState.editor
    label,      \* text of the toggle menu item
    icon,       \* tray icon variant
    checked,    \* the editor menu items whose check mark is set
    alive,      \* children spawned by the supervisor whose process is alive
    children,   \* children[n] is the --zed-bin argument child n was spawned with
    cfgFile,    \* content of config.json (tray build)
    serverLock, \* owner of AppState.server's mutex (tauri build)
    editorLock, \* owner of AppState.editor's mutex (tauri build)
    tasks,      \* the restart tasks spawned on the async runtime (tauri build)
    ev,         \* the menu event handled last
    log         \* the supervisor calls made since that event was taken

vars == <<app, mainPc, server, editor, label, icon, checked, alive, children,
          cfgFile, serverLock, editorLock, tasks, ev, log>>

-----------------------------------------------------------------------------
(* Bounds of the model *)

\* children spawned in one run; past it every spawn fails
MaxSpawns == 3
\* restart tasks pending on the async runtime at one time
MaxDeferred == 2

-----------------------------------------------------------------------------
(* Editor registry *)

Editors == {"Zed", "Vscode", "Sublime"}

DefaultEditor == "Zed"

to_bin_path(e) ==
    CASE e = "Zed"     -> "/usr/local/bin/zed"
      [] e = "Vscode"  -> "/usr/local/bin/code"
      [] e = "Sublime" -> "/Applications/Sublime Text.app/Contents/SharedSupport/bin/subl"

to_menu_id(e) ==
    CASE e = "Zed"     -> "select_zed"
      [] e = "Vscode"  -> "select_vscode"
      [] e = "Sublime" -> "select_sublime"

\* the editor a select_* menu id stands for
editor_of_menu_id(id) ==
    IF id = "select_zed" THEN "Zed"
    ELSE IF id = "select_vscode" THEN "Vscode"
    ELSE "Sublime"

SelectIds == {to_menu_id(e) : e \in Editors}

-----------------------------------------------------------------------------
(* Program state as one value, so that a handler is the composition of the *)
(* functions it calls.                                                     *)

Cur ==
    [server |-> server, editor |-> editor, label |-> label, icon |-> icon,
     checked |-> checked, alive |-> alive, children |-> children,
     cfgFile |-> cfgFile, log |-> log]

Apply(s) ==
    /\ server' = s.server
    /\ editor' = s.editor
    /\ label' = s.label
    /\ icon' = s.icon
    /\ checked' = s.checked
    /\ alive' = s.alive
    /\ children' = s.children
    /\ cfgFile' = s.cfgFile
    /\ log' = s.log

\* History kept for the properties: Call, Logged, Event and Fresh record
\* what the handlers do and change nothing the program reads.
\* one supervisor call, as recorded in log
Call(op, by, pid, arg) == [op |-> op, by |-> by, pid |-> pid, arg |-> arg]

Logged(s, c) == [s EXCEPT !.log = Append(@, c)]

\* the menu event being handled, with the state it found
\* (first: no menu event was taken before it)
Event(kind, arg, s) ==
    [kind |-> kind, arg |-> arg, wasServer |-> s.server, wasEditor |-> s.editor,
     wasLabel |-> s.label, wasIcon |-> s.icon, first |-> ev.kind = "launch"]

NoEvent == [kind |-> "none", arg |-> "-", wasServer |-> 0, wasEditor |-> "-",
            wasLabel |-> "-", wasIcon |-> "-", first |-> FALSE]

\* Child::kill: the process of child n is dead afterwards
Kill(s, by, n) ==
    Logged([s EXCEPT !.alive = @ \ {n}], Call("kill", by, n, "-"))

\* Command::spawn succeeded: a new child, alive, with its argument
Spawned(s, target) ==
    [s EXCEPT !.children = Append(@, target),
              !.alive = @ \cup {Len(s.children) + 1}]

CanSpawn(s) == Len(s.children) < MaxSpawns


\* CheckMenuItem::set_checked / set_selected on the item of editor e
set_checked(chk, e, b) == IF b THEN chk \cup {e} ELSE chk \ {e}

-----------------------------------------------------------------------------
(* Config store (tray build): config.json holds AppConfig as JSON *)

NoPath == "<no config dir>"
Missing == "<no file>"
Unreadable == "<unreadable>"

\* serde_json::to_string_pretty(&AppConfig { editor })
to_string_pretty(e) == "{\n  \"editor\": \"" \o e \o "\"\n}"

\* texts config.json may hold when the application starts
OtherTexts ==
    {"", "{\"editor\":\"Vscode\"}", "{\"editor\": \"Emacs\"}",
     "{\"selected_editor\": \"Sublime\"}"}

FileStates ==
    {NoPath, Missing, Unreadable} \cup OtherTexts
        \cup {to_string_pretty(e) : e \in Editors}

\* from_str also reading the editor from a "selected_editor" field
from_str_any_field(text) ==
    IF \E e \in Editors : text = to_string_pretty(e)
    THEN <<TRUE, CHOOSE e \in Editors : text = to_string_pretty(e)>>
    ELSE IF text = "{\"editor\":\"Vscode\"}" THEN <<TRUE, "Vscode">>
    ELSE IF text = "{\"selected_editor\": \"Sublime\"}" THEN <<TRUE, "Sublime">>
    ELSE <<FALSE, "-">>

\* serde_json::from_str::<AppConfig>(text).ok(): <<TRUE, editor>> or <<FALSE, "-">>
from_str(text) ==
    IF \E e \in Editors : text = to_string_pretty(e)
    THEN <<TRUE, CHOOSE e \in Editors : text = to_string_pretty(e)>>
    ELSE IF text = "{\"editor\":\"Vscode\"}" THEN <<TRUE, "Vscode">>
    ELSE <<FALSE, "-">>

\* load_config falling back to another editor than Zed
load_config_other_default(file) ==
    IF file \in {NoPath, Missing, Unreadable} THEN "Vscode"
    ELSE IF from_str(file)[1] THEN from_str(file)[2]
    ELSE "Vscode"

load_config(file) ==
    IF file \in {NoPath, Missing, Unreadable} THEN DefaultEditor
    ELSE IF from_str(file)[1] THEN from_str(file)[2]
    ELSE DefaultEditor

\* outcomes of fs::write: written, failed before truncating, failed after
WriteOutcomes == {"ok", "open failed", "write failed"}

\* (logged as "save" when written, "save failed" when fs::write failed,
\* "save skipped" when there is no path to write to)
save_config(s, e, outcome) ==
    IF s.cfgFile = NoPath THEN Logged(s, Call("save skipped", "main", 0, e))
    ELSE Logged([s EXCEPT !.cfgFile =
                     CASE outcome = "ok" -> to_string_pretty(e)
                       [] outcome = "open failed" -> @
                       [] outcome = "write failed" -> ""],
                Call(IF outcome = "ok" THEN "save" ELSE "save failed", "main", 0, e))

-----------------------------------------------------------------------------
(* Tray build: supervisor *)

\* outcomes of Command::spawn
SpawnOutcomes(s) == IF CanSpawn(s) THEN {TRUE, FALSE} ELSE {FALSE}

tray_start_server(s, ok) ==
    IF s.server # 0 THEN Logged(s, Call("start", "main", 0, "-"))
    ELSE LET target == to_bin_path(s.editor)
             pid == Len(s.children) + 1
         IN  IF ok
             THEN Logged([Spawned(s, target) EXCEPT !.server = pid],
                         Call("start", "main", pid, target))
             ELSE Logged(s, Call("start", "main", 0, target))

\* stop_server killing whatever the handle slot holds, without looking
tray_stop_server_unguarded(s) ==
    Kill(Logged([s EXCEPT !.server = 0], Call("stop", "main", s.server, "-")),
         "main", s.server)

tray_stop_server(s) ==
    IF s.server # 0
    THEN Kill(Logged([s EXCEPT !.server = 0], Call("stop", "main", s.server, "-")),
              "main", s.server)
    ELSE Logged(s, Call("stop", "main", 0, "-"))

-----------------------------------------------------------------------------
(* Tray build: the handlers of main *)

\* "Start server on launch"
tray_launch(s, ok) ==
    LET t == tray_start_server(s, ok)
    IN  IF t.server # 0 THEN [t EXCEPT !.label = "Stop Server", !.icon = "on"]
        ELSE t

tray_toggle(s, ok) ==
    IF s.server # 0
    THEN [tray_stop_server(s) EXCEPT !.label = "Start Server", !.icon = "off"]
    ELSE [tray_start_server(s, ok) EXCEPT !.label = "Stop Server", !.icon = "on"]

\* the select branch changing the editor without restarting the server
tray_switch_keeps_server(s, new_editor, written, ok) ==
    LET s2 == [s EXCEPT !.checked = set_checked(@, s.editor, FALSE)]
        s3 == save_config([s2 EXCEPT !.editor = new_editor], new_editor, written)
    IN  [s3 EXCEPT !.checked = set_checked(@, new_editor, TRUE)]

\* the select branch when the editor changes
tray_switch(s, new_editor, written, ok) ==
    LET was_running == s.server # 0
        s1 == IF was_running THEN tray_stop_server(s) ELSE s
        s2 == [s1 EXCEPT !.checked = set_checked(@, s.editor, FALSE)]
        s3 == save_config([s2 EXCEPT !.editor = new_editor], new_editor, written)
        s4 == [s3 EXCEPT !.checked = set_checked(@, new_editor, TRUE)]
    IN  IF was_running THEN tray_start_server(s4, ok) ELSE s4

\* tray_select without its comparison: every select switches
tray_select_unconditional(s, new_editor, written, ok) ==
    tray_switch(s, new_editor, written, ok)

tray_select(s, new_editor, written, ok) ==
    IF s.editor # new_editor
    THEN tray_switch(s, new_editor, written, ok)
    ELSE [s EXCEPT !.checked = set_checked(@, s.editor, TRUE)]

tray_quit(s) == Logged(tray_stop_server(s), Call("exit", "main", 0, "-"))

Fresh(s) == [s EXCEPT !.log = <<>>]

TrayLaunch ==
    /\ app = "tray" /\ mainPc = "launch"
    /\ \E ok \in SpawnOutcomes(Cur) : Apply(tray_launch(Fresh(Cur), ok))
    /\ ev' = Event("launch", "-", Cur)
    /\ mainPc' = "idle"
    /\ UNCHANGED <<app, serverLock, editorLock, tasks>>

TrayToggle ==
    /\ app = "tray" /\ mainPc = "idle"
    /\ \E ok \in SpawnOutcomes(Cur) : Apply(tray_toggle(Fresh(Cur), ok))
    /\ ev' = Event("toggle", "-", Cur)
    /\ UNCHANGED <<app, mainPc, serverLock, editorLock, tasks>>

TraySelect ==
    /\ app = "tray" /\ mainPc = "idle"
    /\ \E new_editor \in Editors, written \in WriteOutcomes, ok \in SpawnOutcomes(Cur) :
          /\ Apply(tray_select(Fresh(Cur), new_editor, written, ok))
          /\ ev' = Event("select", new_editor, Cur)
    /\ UNCHANGED <<app, mainPc, serverLock, editorLock, tasks>>

TrayQuit ==
    /\ app = "tray" /\ mainPc = "idle"
    /\ Apply(tray_quit(Fresh(Cur)))
    /\ ev' = Event("quit", "-", Cur)
    /\ mainPc' = "exited"
    /\ UNCHANGED <<app, serverLock, editorLock, tasks>>

-----------------------------------------------------------------------------
(* The helper process may end by itself; nothing watches it. *)

HelperExits ==
    /\ \E n \in alive : alive' = alive \ {n}
    /\ UNCHANGED <<app, mainPc, server, editor, label, icon, checked, children,
                   cfgFile, serverLock, editorLock, tasks, ev, log>>

NoTask == [pc |-> "none", origin |-> "-"]

-----------------------------------------------------------------------------
(* Tauri build: supervisor *)

\* owners of a mutex
Free == <<"free", 0>>
Main == <<"main", 0>>
Task(t) == <<"task", t>>

\* outcomes of start_server past the cleanup
StartResults(s) ==
    {"BinaryNotFound", "PermissionFailure", "SpawnFailure"}
        \cup (IF CanSpawn(s) THEN {"ok"} ELSE {})

\* pkill -f zed-rmate-server, best effort: its result is discarded
pkill(s, by, killed) ==
    Logged([s EXCEPT !.alive = IF killed THEN {} ELSE @], Call("pkill", by, 0, "-"))

\* start_server once it holds the server mutex and has read the editor
tauri_start_server(s, by, killed, res) ==
    LET target == to_bin_path(s.editor)
        s1 == pkill(s, by, killed)
        pid == Len(s.children) + 1
    IN  IF res = "ok"
        THEN Logged([Spawned(s1, target) EXCEPT !.server = pid,
                                                !.label = "Stop Server",
                                                !.icon = "on"],
                    Call("start", by, pid, target))
        ELSE Logged(s1, Call("start", by, 0, target))

tauri_stop_server(s, by) ==
    IF s.server # 0
    THEN [Kill(Logged([s EXCEPT !.server = 0], Call("stop", by, s.server, "-")),
               by, s.server)
            EXCEPT !.label = "Start Server", !.icon = "off"]
    ELSE Logged(s, Call("stop", by, 0, "-"))

\* tauri_quit_take dropping the handle it took without killing the child
tauri_quit_drop(s) == [s EXCEPT !.server = 0]

\* the "quit" branch up to app.exit: take the child and kill it
tauri_quit_take(s) ==
    IF s.server # 0 THEN Kill([s EXCEPT !.server = 0], "main", s.server) ELSE s

\* tauri_select_update leaving the old editor's item checked
tauri_select_keeps_old(s, new_editor) ==
    IF s.editor # new_editor
    THEN [s EXCEPT !.checked = set_checked(@, new_editor, TRUE),
                   !.editor = new_editor]
    ELSE s

\* the select branch under the editor mutex: uncheck old, update, check new
tauri_select_update(s, new_editor) ==
    IF s.editor # new_editor
    THEN [s EXCEPT !.checked = set_checked(set_checked(@, s.editor, FALSE),
                                           new_editor, TRUE),
                   !.editor = new_editor]
    ELSE s

-----------------------------------------------------------------------------
(* Tauri build: setup and the handlers of on_system_tray_event (main thread) *)

TauriSetup ==
    /\ app = "tauri" /\ mainPc = "launch"
    /\ \E killed \in BOOLEAN, res \in StartResults(Cur) :
          Apply(tauri_start_server(Fresh(Cur), "main", killed, res))
    /\ ev' = Event("launch", "-", Cur)
    /\ mainPc' = "idle"
    /\ UNCHANGED <<app, serverLock, editorLock, tasks>>

\* What locking a std Mutex the thread already holds may do
RelockOutcomes == {"hung", "panicked"}

\* "server_toggle": lock the server mutex and look at it.  With a child the
\* guard is still held when stop_server locks the same mutex again.
TauriToggle ==
    /\ app = "tauri" /\ mainPc = "idle"
    /\ serverLock = Free
    /\ ev' = Event("toggle", "-", Cur)
    /\ Apply(Fresh(Cur))
    /\ IF server # 0
       THEN /\ mainPc' \in RelockOutcomes
            /\ serverLock' = Main
       ELSE /\ mainPc' = "toggle_start"
            /\ serverLock' = Free
    /\ UNCHANGED <<app, editorLock, tasks>>

\* "server_toggle", the guard dropped: start_server
TauriToggleStart ==
    /\ app = "tauri" /\ mainPc = "toggle_start"
    /\ serverLock = Free /\ editorLock = Free
    /\ \E killed \in BOOLEAN, res \in StartResults(Cur) :
          Apply(tauri_start_server(Cur, "main", killed, res))
    /\ mainPc' = "idle"
    /\ UNCHANGED <<app, serverLock, editorLock, tasks, ev>>

FreeSlots == {t \in DOMAIN tasks : tasks[t].pc = "none"}

\* "select_*": lock the editor mutex, compare, update the menu and the state
TauriSelect ==
    /\ app = "tauri" /\ mainPc = "idle"
    /\ editorLock = Free
    /\ \E id \in SelectIds :
          LET new_editor == editor_of_menu_id(id)
          IN  /\ new_editor # editor => FreeSlots # {}
              /\ ev' = Event("select", new_editor, Cur)
              /\ Apply(tauri_select_update(Fresh(Cur), new_editor))
              /\ IF new_editor # editor
                 THEN mainPc' = "select_check" /\ editorLock' = Main
                 ELSE mainPc' = "idle" /\ editorLock' = Free
    /\ UNCHANGED <<app, serverLock, tasks>>

\* "select_*": server_is_running, read under the server mutex
TauriSelectCheck ==
    /\ app = "tauri" /\ mainPc = "select_check"
    /\ serverLock = Free
    /\ IF server # 0
       THEN mainPc' = "select_stop" /\ editorLock' = editorLock
       ELSE mainPc' = "idle" /\ editorLock' = Free
    /\ UNCHANGED <<app, server, editor, label, icon, checked, alive, children,
                   cfgFile, serverLock, tasks, ev, log>>

\* "select_*": stop_server, then hand the restart to the async runtime
TauriSelectStop ==
    /\ app = "tauri" /\ mainPc = "select_stop"
    /\ serverLock = Free
    /\ Apply(tauri_stop_server(Cur, "main"))
    /\ LET t == CHOOSE x \in FreeSlots : \A y \in FreeSlots : x <= y
       IN  tasks' = [tasks EXCEPT ![t] = [pc |-> "sleep", origin |-> editor]]
    /\ mainPc' = "idle"
    /\ editorLock' = Free
    /\ UNCHANGED <<app, serverLock, ev>>

\* "quit": take the child under the server mutex and kill it
TauriQuit ==
    /\ app = "tauri" /\ mainPc = "idle"
    /\ serverLock = Free
    /\ ev' = Event("quit", "-", Cur)
    /\ Apply(tauri_quit_take(Fresh(Cur)))
    /\ mainPc' = "quit_exit"
    /\ UNCHANGED <<app, serverLock, editorLock, tasks>>

\* "quit": app.exit(0) ends the process, and its tasks with it
TauriQuitExit ==
    /\ app = "tauri" /\ mainPc = "quit_exit"
    /\ Apply(Logged(Cur, Call("exit", "main", 0, "-")))
    /\ mainPc' = "exited"
    /\ UNCHANGED <<app, serverLock, editorLock, tasks, ev>>

-----------------------------------------------------------------------------
(* Tauri build: the restart task on the async runtime *)

ProcessRuns == mainPc \notin {"exited", "panicked"}

\* the settle sleep is over; start_server locks the server mutex
TaskLockServer(t) ==
    /\ app = "tauri" /\ ProcessRuns
    /\ tasks[t].pc = "sleep"
    /\ serverLock = Free
    /\ serverLock' = Task(t)
    /\ tasks' = [tasks EXCEPT ![t].pc = "locked"]
    /\ UNCHANGED <<app, mainPc, server, editor, label, icon, checked, alive,
                   children, cfgFile, editorLock, ev, log>>

\* start_server reads the editor under its mutex and does the rest
TaskStart(t) ==
    /\ app = "tauri" /\ ProcessRuns
    /\ tasks[t].pc = "locked"
    /\ editorLock = Free
    /\ \E killed \in BOOLEAN, res \in StartResults(Cur) :
          Apply(tauri_start_server(Cur, "task", killed, res))
    /\ serverLock' = Free
    /\ tasks' = [tasks EXCEPT ![t] = NoTask]
    /\ UNCHANGED <<app, mainPc, editorLock, ev>>

-----------------------------------------------------------------------------

InitTray ==
    /\ app = "tray"
    /\ cfgFile \in FileStates
    /\ editor = load_config(cfgFile)
    /\ label = "Start Server"
    /\ icon = "off"
    /\ checked = {e \in Editors : load_config(cfgFile) = e}

\* the tray icon the bundle configures is not set by main
IconVariants == {"on", "off"}

InitTauri ==
    /\ app = "tauri"
    /\ cfgFile = Missing
    /\ editor = "Zed"
    /\ label = "Stop Server"
    /\ icon \in IconVariants
    /\ checked = {"Zed"}

InitCommon ==
    /\ mainPc = "launch"
    /\ server = 0
    /\ alive = {}
    /\ children = <<>>
    /\ serverLock = Free
    /\ editorLock = Free
    /\ tasks = [t \in 1..MaxDeferred |-> NoTask]
    /\ ev = NoEvent
    /\ log = <<>>

Init == (InitTray \/ InitTauri) /\ InitCommon

TrayNext == TrayLaunch \/ TrayToggle \/ TraySelect \/ TrayQuit

TauriNext ==
    \/ TauriSetup
    \/ TauriToggle
    \/ TauriToggleStart
    \/ TauriSelect
    \/ TauriSelectCheck
    \/ TauriSelectStop
    \/ TauriQuit
    \/ TauriQuitExit
    \/ \E t \in 1..MaxDeferred : TaskLockServer(t)
    \/ \E t \in 1..MaxDeferred : TaskStart(t)

Next == TrayNext \/ TauriNext \/ HelperExits

Spec == Init /\ [][Next]_vars

-----------------------------------------------------------------------------
(* Vocabulary of the properties *)

Running == server # 0

NoRestartPending == \A t \in DOMAIN tasks : tasks[t].pc = "none"

\* no handler and no deferred restart is in progress
Settled == mainPc = "idle" /\ NoRestartPending

ShowsRunning == label = "Stop Server" /\ icon = "on"
ShowsStopped == label = "Start Server" /\ icon = "off"

CallsOf(l, op) == SelectSeq(l, LAMBDA c : c.op = op)
MainCalls(l) == SelectSeq(l, LAMBDA c : c.by = "main")

\* a step that takes a menu event
TakesEvent ==
    TrayToggle \/ TraySelect \/ TrayQuit \/ TauriToggle \/ TauriSelect \/ TauriQuit

\* a step in which start_server runs
StartStep == TauriToggleStart \/ \E t \in DOMAIN tasks : TaskStart(t)

-----------------------------------------------------------------------------
\* C1: once the launch-time start or an event has been fully processed, the
\* tray shows "Stop Server"/on exactly when the supervisor holds a child, and
\* "Start Server"/off otherwise.
C1_TrayConsistency ==
    (mainPc \in {"idle", "exited"} /\ NoRestartPending)
        => IF Running THEN ShowsRunning ELSE ShowsStopped

\* the toggle handler has run its start and the start failed
ToggleStartFailed ==
    /\ ev.kind = "toggle" /\ ev.wasServer = 0
    /\ mainPc # "toggle_start"
    /\ log # <<>>
    /\ log[Len(log)].op = "start" /\ log[Len(log)].by = "main"
    /\ log[Len(log)].pid = 0

\* C2: a ToggleServer taken while Absent whose start fails leaves the
\* supervisor Absent, the label "Start Server", the icon off, and the
\* application waiting for the next event.
C2_FailedToggleStaysStopped ==
    ToggleStartFailed => (~Running /\ ShowsStopped /\ mainPc = "idle")

\* C3: a start made while the supervisor is Running spawns no child, runs
\* no cleanup kill and leaves the handle and the tray as they were.
C3_IdempotentStart ==
    [][(Running /\ StartStep)
          => /\ UNCHANGED <<server, children, alive, label, icon>>
             /\ CallsOf(log', "pkill") = CallsOf(log, "pkill")]_vars

\* C4: at most one child of the supervisor is alive, and a live child is
\* always the one whose handle the supervisor holds.
C4_AtMostOneChild == Cardinality(alive) <= 1 /\ alive \subseteq {server}

\* C5: while a restart is between its stop and its start, no menu event is
\* applied.
C5_NoEventDuringRestart == [][~NoRestartPending => ~TakesEvent]_vars

\* the last event switched the editor with a child held, and all is done
SwitchRestartDone ==
    /\ ev.kind = "select" /\ ev.arg # ev.wasEditor /\ ev.wasServer # 0
    /\ Settled

\* C6: a SelectEditor(B) taken while Running under another editor causes
\* exactly one stop, then exactly one start, the start with B's launch target;
\* when that start succeeds the supervisor holds the new child, the tray shows
\* "Stop Server"/on, and B alone is checked.
C6_RestartOnSwitch ==
    SwitchRestartDone =>
        LET stops == {i \in DOMAIN log : log[i].op = "stop"}
            starts == {i \in DOMAIN log : log[i].op = "start"}
        IN  /\ Cardinality(stops) = 1
            /\ Cardinality(starts) = 1
            /\ \A i \in stops, j \in starts :
                  /\ i < j
                  /\ log[j].arg = to_bin_path(ev.arg)
                  /\ log[j].pid # 0 =>
                        /\ server = log[j].pid
                        /\ ShowsRunning
                        /\ checked = {ev.arg}

\* C7: exactly one editor item is checked, and it is the selected editor's.
C7_CheckedIsSelected == Cardinality(checked) = 1 /\ checked = {editor}

C7_Witness ==
    /\ ev.kind = "select" /\ ev.arg # ev.wasEditor /\ ev.wasEditor # DefaultEditor
    /\ Settled
    /\ editor = ev.arg /\ checked = {ev.arg}

\* a step taking a select of the editor already selected
NoOpSelect ==
    /\ TraySelect \/ TauriSelect
    /\ ev'.kind = "select" /\ ev'.arg = editor

\* C8: a SelectEditor of the editor already selected makes no stop, start or
\* save call and leaves supervisor, preference, label, icon, check marks and
\* the config file as they were.
C8_NoOpSelect ==
    [][NoOpSelect
         => /\ log' = <<>>
            /\ mainPc' = "idle"
            /\ UNCHANGED <<server, editor, label, icon, checked, alive, children,
                           cfgFile, tasks, serverLock, editorLock>>]_vars

C8_Witness ==
    /\ ev.kind = "select" /\ ev.arg = ev.wasEditor /\ ev.wasServer # 0
    /\ mainPc = "idle" /\ log = <<>>
    /\ server = ev.wasServer /\ editor = ev.arg

\* the kill and exit calls of the main thread, in order
KillsAndExit(l) ==
    LET m == SelectSeq(l, LAMBDA c : c.by = "main" /\ c.op \in {"kill", "exit"})
    IN  [i \in DOMAIN m |-> <<m[i].op, m[i].pid>>]

\* C9: the Quit handler kills the child once when there is one and none when
\* there is none, leaves the supervisor Absent, and termination is signalled
\* only by Quit, after that.
C9_QuitCleansUp ==
    [][/\ (TrayQuit \/ TauriQuit)
            => /\ server' = 0
               /\ alive' = alive \ {server}
               /\ CallsOf(MainCalls(log'), "kill")
                     = IF Running THEN <<Call("kill", "main", server, "-")>> ELSE <<>>
       /\ (mainPc # "exited" /\ mainPc' = "exited")
            => /\ ev'.kind = "quit"
               /\ KillsAndExit(log')
                     = IF ev'.wasServer # 0
                       THEN <<<<"kill", ev'.wasServer>>, <<"exit", 0>>>>
                       ELSE <<<<"exit", 0>>>>]_vars

C9_Witness ==
    /\ mainPc = "exited" /\ ev.kind = "quit" /\ ev.wasServer # 0
    /\ server = 0 /\ alive = {}

\* C10: once Quit has been handled no start has been made after its stop and
\* no child of the supervisor is alive.
C10_QuitIsTerminal ==
    mainPc = "exited" => (CallsOf(log, "start") = <<>> /\ alive = {})

\* the launch target the held child was spawned with
HeldTarget == children[server]

\* C11 as stated: with no persisted config the editor is Zed, the supervisor
\* is Absent until the first menu event, and a first ToggleServer whose start
\* succeeds makes it Running with Zed's launch target, the tray showing
\* "Stop Server"/on.
C11_AbsentUntilFirstEvent ==
    /\ (cfgFile = Missing /\ ev.kind \in {"none", "launch"})
          => (editor = DefaultEditor /\ ~Running)
    /\ (cfgFile = Missing /\ ev.kind = "toggle" /\ ev.first /\ mainPc = "idle"
            /\ Running)
          => (HeldTarget = to_bin_path(DefaultEditor) /\ ShowsRunning)

\* C11, amended: with no persisted config the editor is Zed and the
\* supervisor is Absent until the launch-time start; when that start succeeds
\* the supervisor is Running with Zed's launch target and the tray shows
\* "Stop Server"/on before any menu event; when it fails, a first ToggleServer
\* whose start succeeds makes it Running with Zed's launch target, the tray
\* showing "Stop Server"/on.
C11_FreshLaunchStarts ==
    /\ (cfgFile = Missing /\ ev.kind = "none")
          => (editor = DefaultEditor /\ ~Running)
    /\ (cfgFile = Missing /\ ev.kind = "launch")
          => /\ editor = DefaultEditor
             /\ Running => (HeldTarget = to_bin_path(DefaultEditor) /\ ShowsRunning)
    /\ (cfgFile = Missing /\ ev.kind = "toggle" /\ ev.first /\ ev.wasServer = 0
            /\ mainPc = "idle" /\ Running)
          => (HeldTarget = to_bin_path(DefaultEditor) /\ ShowsRunning)

C11_Witness ==
    /\ cfgFile = Missing /\ ev.kind = "toggle" /\ ev.first /\ ev.wasServer = 0
    /\ mainPc = "idle" /\ Running
    /\ HeldTarget = to_bin_path(DefaultEditor) /\ ShowsRunning

\* the well-formed preferences among the texts of the model, with the editor
\* each one stores
WellFormed ==
    {<<"{\n  \"editor\": \"Zed\"\n}", "Zed">>,
     <<"{\n  \"editor\": \"Vscode\"\n}", "Vscode">>,
     <<"{\n  \"editor\": \"Sublime\"\n}", "Sublime">>,
     <<"{\"editor\":\"Vscode\"}", "Vscode">>}

\* C12: load gives the stored editor when config.json holds a well-formed
\* preference, and Zed when there is no config path or the file is missing,
\* unreadable or malformed; the editor the application starts with is that
\* one.
C12_ConfigResilience ==
    LET loaded == load_config(cfgFile)
        expected == IF \E w \in WellFormed : w[1] = cfgFile
                    THEN (CHOOSE w \in WellFormed : w[1] = cfgFile)[2]
                    ELSE "Zed"
    IN  /\ loaded = expected
        /\ (app = "tray" /\ mainPc = "launch") => editor = expected

C12_Witness ==
    /\ app = "tray" /\ mainPc = "idle" /\ ev.kind = "launch"
    /\ cfgFile = "{\"selected_editor\": \"Sublime\"}"
    /\ editor = "Zed" /\ checked = {"Zed"}

\* a select that changed the editor has been handled
SwitchHandled ==
    /\ ev.kind = "select" /\ ev.arg # ev.wasEditor
    /\ mainPc \notin {"select_check", "select_stop"}

\* C13: every SelectEditor that changes the editor saves the new preference
\* during that event, and when the save is written a load returns the
\* selected editor.
C13_WriteThrough ==
    SwitchHandled =>
        \E i \in DOMAIN log :
            /\ log[i].op \in {"save", "save failed", "save skipped"}
            /\ log[i].arg = ev.arg
            /\ log[i].op = "save" => load_config(cfgFile) = editor

\* C14: a stop made while the supervisor is Absent (Quit's, the only one
\* made then) kills nothing, completes, and leaves supervisor, processes,
\* label and icon as they were.
C14_IdempotentStop ==
    [][((TrayQuit \/ TauriQuit) /\ ~Running)
          => /\ CallsOf(log', "kill") = <<>>
             /\ mainPc' \in {"quit_exit", "exited"}
             /\ UNCHANGED <<server, alive, children, label, icon>>]_vars

C14_Witness ==
    /\ ev.kind = "quit" /\ ev.wasServer = 0
    /\ mainPc \in {"quit_exit", "exited"}
    /\ ~Running /\ label = ev.wasLabel /\ icon = ev.wasIcon
    /\ CallsOf(log, "kill") = <<>>

\* C15: a ToggleServer taken while Running completes: the child is killed,
\* the supervisor is Absent, the tray shows "Start Server"/off and the main
\* thread waits for the next event.
C15_ToggleStopCompletes ==
    (ev.kind = "toggle" /\ ev.wasServer # 0)
        => /\ mainPc = "idle"
           /\ ~Running
           /\ ev.wasServer \notin alive
           /\ ShowsStopped

\* C16: when a SelectEditor that changes the editor is handled while Running
\* and the restart's start fails, the supervisor ends Absent, the tray shows
\* "Start Server"/off and the new editor is checked.
C16_FailedRestartShowsStopped ==
    (SwitchRestartDone /\ \A i \in DOMAIN log : log[i].op = "start" => log[i].pid = 0)
        => (~Running /\ ShowsStopped /\ checked = {ev.arg})

\* C17: every spawn is preceded, in the same start call, by the cleanup of
\* stray helper processes and its settle delay.
C17_CleanupBeforeSpawn ==
    \A i \in DOMAIN log :
        (log[i].op = "start" /\ log[i].pid # 0)
            => /\ i > 1
               /\ log[i - 1].op = "pkill"
               /\ log[i - 1].by = log[i].by

\* C18: the helper dying changes neither the handle nor the tray, and the
\* next ToggleServer, finding the handle of the dead child, stops: the
\* supervisor ends Absent with "Start Server"/off and no child is spawned.
C18_NoLivenessMonitoring ==
    [][/\ HelperExits => UNCHANGED <<server, label, icon>>
       /\ ((TrayToggle \/ TauriToggle) /\ Running /\ server \notin alive)
            => /\ server' = 0
               /\ label' = "Start Server" /\ icon' = "off"
               /\ children' = children
               /\ mainPc' = "idle"]_vars

\* the main thread holds the editor mutex and waits for the server mutex,
\* which a restart task holds while waiting for the editor mutex
LockCycle ==
    /\ mainPc \in {"select_check", "select_stop"}
    /\ editorLock = Main
    /\ \E t \in DOMAIN tasks : tasks[t].pc = "locked" /\ serverLock = Task(t)

\* C19: a select handler holding the editor mutex and a deferred restart
\* holding the server mutex never wait for each other.
C19_NoLockCycle == ~LockCycle

\* C20: between events, a held child was spawned with the launch target of
\* the selected editor.
C20_TargetMatchesSelection ==
    (Settled /\ Running) => HeldTarget = to_bin_path(editor)

C20_Witness ==
    /\ Settled /\ Running
    /\ ev.kind = "select" /\ ev.arg # ev.wasEditor /\ ev.wasServer # 0
    /\ editor = ev.arg /\ HeldTarget = to_bin_path(ev.arg)

=============================================================================
